---- MODULE Spec2Model ----
(***************************************************************************)
(* Model of nncore.engine.Engine (src/nncore/engine/engine.py): the hook   *)
(* list, the stage/epoch/iter counters, hook registration and the          *)
(* before_X / after_X dispatch made by the stepping methods.               *)
(*                                                                         *)
(* The engine is single threaded and synchronous, so every method is one   *)
(* atomic action.  What happens inside a method, in order, is kept in      *)
(* `log`: one record per dispatched event, holding the hooks invoked (in   *)
(* invocation order) and the counter values the callbacks observe.         *)
(*                                                                         *)
(* Init is the object state the constructor's field assignments establish  *)
(* (engine.py lines 13-25).  The constructor's own call of register_hook   *)
(* (line 20) is modelled by the action EngineInit.                         *)
(***************************************************************************)
EXTENDS Integers, Sequences, FiniteSets, TLC

\* ------------------------------------------------------------------------
\* Bounds
\* ------------------------------------------------------------------------

\* number of method calls made on the engine in one behaviour
MaxCalls == 3

\* ------------------------------------------------------------------------
\* Values
\* ------------------------------------------------------------------------

\* Python's None (the default of `before`)
None == "None"

\* an attribute that was never assigned: reading it raises AttributeError
Unset == -1

\* the hook types registered in HOOKS; a hook's name is its type name.
\* h1 has the no-op callbacks of the Hook base, the lifecycle callbacks of h2
\* raise, on_register of h3 raises, EventWriterHook is the hook of events.py
HOOKS == {"h1", "h2", "h3", "EventWriterHook"}

\* the hooks whose before_X / after_X callbacks raise
RaisingHooks == {"h2"}

\* the hooks whose on_register callback raises
OnRegisterRaises == {"h3"}

\* values a caller can pass as `hook`: a Hook instance, a config dict naming
\* a registered or an unregistered type, any other object
HookInputs ==
    { [kind |-> "Hook", names |-> <<n>>] : n \in {"h1", "h2", "h3"} } \cup
    { [kind |-> "dict", names |-> <<n>>] : n \in {"EventWriterHook", "nope"} }
    \cup { [kind |-> "other", names |-> <<>>] }

\* values a caller can pass as `hooks` to the constructor: the above, or a
\* list of hooks
CtorInputs ==
    HookInputs \cup { [kind |-> "list", names |-> <<"h1", "h2">>] }

\* values a caller can pass as `before`
BeforeInputs == {"h1", "h2", None}

VARIABLES
    _hooks,     \* Engine._hooks: the hook list, as a sequence of hook names
    _stage,     \* Engine._stage
    _epoch,     \* Engine._epoch
    _iter,      \* Engine._iter
    _step,      \* Engine._step: read by train_step, assigned nowhere
    mode,       \* the model's mode: "unset", "train" (model.train()), "eval"
    log,        \* the events dispatched so far, oldest first
    on_register,\* the hooks whose on_register callback was called, in order
    regCalls,   \* the arguments of the register_hook calls made so far
    ctorArg,    \* the `hooks` argument of the last Engine(...) call
    lastOp,     \* the method called last
    result,     \* how that call ended: "ok" or the error it raised
    ncalls,     \* number of calls made
    \* --- EventWriterHook and the processes it runs in
    proc,       \* per process: buffer histories, writer handles, operations
                \* performed, iteration within the epoch
    bkeys,      \* engine.buffer.keys(): the tracked keys, in insertion order
    hookOp,     \* the hook callback (or buffer record) made last
    hookResult, \* how it ended on the master process
    hcalls      \* number of callbacks and records made

engineVars == <<_hooks, _stage, _epoch, _iter, _step, mode, log, on_register,
                regCalls, ctorArg, lastOp, result, ncalls>>

hookVars == <<proc, bkeys, hookOp, hookResult, hcalls>>

vars == <<engineVars, hookVars>>

\* ------------------------------------------------------------------------
\* Hook list helpers
\* ------------------------------------------------------------------------

\* `x in self._hooks`: Hook.__eq__ compares by name, so None matches no hook
Contains(hooks, x) == \E i \in 1..Len(hooks) : hooks[i] = x

\* list.index(x), 0-based: the first position holding x
IndexOf(hooks, x) ==
    (CHOOSE i \in 1..Len(hooks) :
        hooks[i] = x /\ \A j \in 1..(i - 1) : hooks[j] # x) - 1

\* list.insert(idx, x) with 0 <= idx <= len
InsertAt(hooks, idx, x) ==
    SubSeq(hooks, 1, idx) \o <<x>> \o SubSeq(hooks, idx + 1, Len(hooks))

\* ------------------------------------------------------------------------
\* register_hook
\* ------------------------------------------------------------------------

\* register_hook with hook.on_register(self) moved above the two checks
register_hook_early(hooks, hook, before) ==
    IF hook.kind = "dict" /\ hook.names[1] \notin HOOKS
    THEN [result |-> "KeyError", hooks |-> hooks, on_register |-> FALSE]
    ELSE IF hook.kind \notin {"dict", "Hook"}
    THEN [result |-> "TypeError", hooks |-> hooks, on_register |-> FALSE]
    ELSE LET name == hook.names[1] IN
         IF name \in OnRegisterRaises
         THEN [result |-> "on_register raised", hooks |-> hooks,
               on_register |-> TRUE]
         ELSE IF Contains(hooks, name)
         THEN [result |-> "exists", hooks |-> hooks, on_register |-> TRUE]
         ELSE IF ~Contains(hooks, before)
         THEN [result |-> "not found", hooks |-> hooks, on_register |-> TRUE]
         ELSE IF before # None
         THEN [result |-> "ok",
               hooks |-> InsertAt(hooks, IndexOf(hooks, before), name),
               on_register |-> TRUE]
         ELSE [result |-> "ok", hooks |-> Append(hooks, name),
               on_register |-> TRUE]

\* Engine.register_hook(hook, before) on hook list `hooks`: the outcome, the
\* hook list it leaves and whether hook.on_register(self) was called
register_hook(hooks, hook, before) ==
    IF hook.kind = "dict" /\ hook.names[1] \notin HOOKS
    THEN [result |-> "KeyError", hooks |-> hooks, on_register |-> FALSE]
    ELSE IF hook.kind \notin {"dict", "Hook"}
    THEN [result |-> "TypeError", hooks |-> hooks, on_register |-> FALSE]
    ELSE LET name == hook.names[1] IN
         IF Contains(hooks, name)
         THEN [result |-> "exists", hooks |-> hooks, on_register |-> FALSE]
         ELSE IF ~Contains(hooks, before)
         THEN [result |-> "not found", hooks |-> hooks, on_register |-> FALSE]
         ELSE IF name \in OnRegisterRaises
         THEN [result |-> "on_register raised", hooks |-> hooks,
               on_register |-> TRUE]
         ELSE IF before # None
         THEN [result |-> "ok",
               hooks |-> InsertAt(hooks, IndexOf(hooks, before), name),
               on_register |-> TRUE]
         ELSE [result |-> "ok", hooks |-> Append(hooks, name),
               on_register |-> TRUE]

\* ------------------------------------------------------------------------
\* Dispatch
\* ------------------------------------------------------------------------

\* a callback of some hook of the list raises
Raises(hooks) == \E i \in 1..Len(hooks) : hooks[i] \in RaisingHooks

\* the hooks a dispatch reaches: the list up to the first hook that raises
Invoked(hooks) ==
    IF Raises(hooks)
    THEN SubSeq(hooks, 1,
                CHOOSE i \in 1..Len(hooks) :
                    /\ hooks[i] \in RaisingHooks
                    /\ \A j \in 1..(i - 1) : hooks[j] \notin RaisingHooks)
    ELSE hooks

\* self.<event>(): every hook of the list gets its <event> callback, in list
\* order; the record keeps what the callbacks see
Dispatch(event, m) ==
    [event |-> event, invoked |-> Invoked(_hooks), stage |-> _stage,
     epoch |-> _epoch, iter |-> _iter, mode |-> m]

\* self.before_X(); self.after_X(): a hook that raises ends the method, so
\* the after_X dispatch is not made
Events(before, after, m) ==
    IF Raises(_hooks)
    THEN <<Dispatch(before, m)>>
    ELSE <<Dispatch(before, m), Dispatch(after, m)>>

\* `self.<attr> += 1`: AttributeError when the attribute was never assigned
CanIncrement(attr) == attr # Unset

\* ------------------------------------------------------------------------
\* Buffer keys
\* ------------------------------------------------------------------------

\* A key is a string, kept as the sequence of its pieces: the marker "_" and
\* words without a marker.  "_iter_time", "loss", "loss_histogram_",
\* "loss_unknowntype_":
KeyIterTime == <<"_", "iter", "_", "time">>
KeyLoss == <<"loss">>
KeyHistogram == <<"loss", "_", "histogram", "_">>
KeyUnknown == <<"loss", "_", "unknowntype", "_">>

Keys == {KeyIterTime, KeyLoss, KeyHistogram, KeyUnknown}

\* key.startswith('_'), key.endswith('_')
StartsWithMarker(key) == key # <<>> /\ key[1] = "_"
EndsWithMarker(key) == key # <<>> /\ key[Len(key)] = "_"

\* key.split('_'): the pieces between the markers, empty ones included
RECURSIVE Split(_)
Split(key) ==
    IF key = <<>> THEN << <<>> >>
    ELSE LET rest == Split(Tail(key)) IN
         IF Head(key) = "_"
         THEN << <<>> >> \o rest
         ELSE << <<Head(key)>> \o rest[1] >> \o Tail(rest)

\* ''.join(tokens)
RECURSIVE Join(_)
Join(tokens) ==
    IF tokens = <<>> THEN <<>> ELSE Head(tokens) \o Join(Tail(tokens))

\* the log types TensorboardWriter.write supports
LogTypes ==
    { <<t>> : t \in {"histogram", "image", "images", "figure", "video",
                     "audio", "text"} }

\* tokens[-1] taken for the type token
LogTypeOf_last(key) == Split(key)[Len(Split(key))]

\* log_type = tokens[-2]
LogTypeOf(key) == Split(key)[Len(Split(key)) - 1]

\* ''.join(tokens[:-2])
TagOf(key) == Join(SubSeq(Split(key), 1, Len(Split(key)) - 2))

\* ------------------------------------------------------------------------
\* Writers and EventWriterHook
\* ------------------------------------------------------------------------

\* number of processes of the run; process 0 is the master
WorldSize == 2

Ranks == 0..(WorldSize - 1)

\* master_only: the decorated callback runs on the master process only
IsMaster(rank) == rank = 0

\* EventWriterHook._interval
Interval == 2

\* len(engine.data_loader): iterations in an epoch
EpochLen == 3

\* callbacks and buffer records made in one behaviour
MaxHookCalls == 5

\* EventWriterHook._writers: two TensorboardWriter instances
Writers == <<"tensorboard_a", "tensorboard_b">>

NoError == [error |-> "ok", token |-> <<>>]

\* TensorboardWriter.write over the keys `ks`, on a writer whose handle is
\* `handle`: the add_* calls made, in order, and the error that ended it.
\* A key starting with the marker is skipped; a key ending with it goes to
\* add_<type>; any other key goes to add_scalar(s) with its average.
RECURSIVE TensorboardWrite(_, _, _, _)
TensorboardWrite(w, handle, ks, m) ==
    IF ks = <<>> THEN [ops |-> <<>>, err |-> NoError]
    ELSE LET key == Head(ks) IN
         IF StartsWithMarker(key)
         THEN TensorboardWrite(w, handle, Tail(ks), m)
         ELSE IF EndsWithMarker(key) /\ LogTypeOf(key) \notin LogTypes
         THEN [ops |-> <<>>,
               err |-> [error |-> "TypeError", token |-> LogTypeOf(key)]]
         ELSE IF handle = "none"
         THEN [ops |-> <<>>,
               err |-> [error |-> "AttributeError", token |-> <<>>]]
         ELSE LET call == [op |-> "add", writer |-> w, key |-> key,
                           type |-> IF EndsWithMarker(key)
                                    THEN LogTypeOf(key)
                                    ELSE <<"scalar">>,
                           tag |-> IF EndsWithMarker(key)
                                   THEN TagOf(key) ELSE key,
                           mode |-> m]
                  rest == TensorboardWrite(w, handle, Tail(ks), m)
              IN  [ops |-> <<call>> \o rest.ops, err |-> rest.err]

\* EventWriterHook._write: every writer writes, in list order; an error ends it
RECURSIVE _write(_, _, _, _)
_write(ws, p, ks, m) ==
    IF ws = <<>> THEN [ops |-> <<>>, err |-> NoError]
    ELSE LET w == Head(ws)
             start == [op |-> "write", writer |-> w, key |-> <<>>,
                       type |-> <<>>, tag |-> <<>>, mode |-> m]
             one == TensorboardWrite(w, p.writer[w], ks, m)
         IN  IF one.err # NoError
             THEN [ops |-> <<start>> \o one.ops, err |-> one.err]
             ELSE LET rest == _write(Tail(ws), p, ks, m) IN
                  [ops |-> <<start>> \o one.ops \o rest.ops, err |-> rest.err]

\* the buffer.clear(key) calls of _empty_buffer, in key order
RECURSIVE ClearOps(_)
ClearOps(ks) ==
    IF ks = <<>> THEN <<>>
    ELSE IF ~StartsWithMarker(Head(ks))
    THEN <<[op |-> "clear", writer |-> "", key |-> Head(ks), type |-> <<>>,
            tag |-> <<>>, mode |-> ""]>> \o ClearOps(Tail(ks))
    ELSE ClearOps(Tail(ks))

\* _empty_buffer with the filter the console and file writers use
_empty_buffer_skipsMedia(p, ks) ==
    [p EXCEPT
        !.hist = [k \in Keys |->
                    IF /\ \E i \in 1..Len(ks) : ks[i] = k
                       /\ ~StartsWithMarker(k)
                       /\ ~EndsWithMarker(k)
                    THEN <<>> ELSE p.hist[k]],
        !.ops = p.ops \o ClearOps(ks)]

\* EventWriterHook._empty_buffer: every key not starting with the marker is
\* cleared
_empty_buffer(p, ks) ==
    [p EXCEPT
        !.hist = [k \in Keys |->
                    IF (\E i \in 1..Len(ks) : ks[i] = k)
                       /\ ~StartsWithMarker(k)
                    THEN <<>> ELSE p.hist[k]],
        !.ops = p.ops \o ClearOps(ks)]

\* self._write(engine); self._empty_buffer(engine)
Fire(p, ks, m) ==
    LET w == _write(Writers, p, ks, m)
        written == [p EXCEPT !.ops = p.ops \o w.ops]
    IN  IF w.err # NoError
        THEN [p |-> written, err |-> w.err]
        ELSE [p |-> _empty_buffer(written, ks), err |-> NoError]

\* the lifecycle callbacks EventWriterHook overrides; every other callback is
\* the no-op of the Hook base
EventWriterCallbacks ==
    {"before_launch", "after_launch", "after_train_iter", "after_val_epoch"}

\* Hook.last_iter_in_epoch, Hook.every_n_iters: `it` is the number of
\* iterations of the epoch completed before the current one
last_iter_in_epoch(it) == it + 1 = EpochLen
every_n_iters(it, n) == (it + 1) % n = 0

\* for w in self._writers: w.open(engine)
RECURSIVE OpenOps(_)
OpenOps(ws) ==
    IF ws = <<>> THEN <<>>
    ELSE <<[op |-> "open", writer |-> Head(ws), key |-> <<>>, type |-> <<>>,
            tag |-> <<>>, mode |-> ""]>> \o OpenOps(Tail(ws))

\* for w in self._writers: w.close(engine): a writer that was never opened
\* has no handle to close
RECURSIVE CloseAll(_, _)
CloseAll(ws, p) ==
    IF ws = <<>> THEN [p |-> p, err |-> NoError]
    ELSE LET w == Head(ws) IN
         IF p.writer[w] = "none"
         THEN [p |-> p, err |-> [error |-> "AttributeError", token |-> <<>>]]
         ELSE CloseAll(Tail(ws),
                [p EXCEPT !.writer[w] = "closed",
                          !.ops = p.ops \o
                             <<[op |-> "close", writer |-> w, key |-> <<>>,
                                type |-> <<>>, tag |-> <<>>, mode |-> ""]>>])

\* before_launch without the master_only decorator
before_launch_everywhere(rank, p) ==
    [p |-> [p EXCEPT !.writer = [w \in DOMAIN p.writer |-> "open"],
                     !.ops = p.ops \o OpenOps(Writers)],
     err |-> NoError]

\* EventWriterHook.before_launch on process `rank`
before_launch(rank, p) ==
    IF ~IsMaster(rank) THEN [p |-> p, err |-> NoError]
    ELSE [p |-> [p EXCEPT !.writer = [w \in DOMAIN p.writer |-> "open"],
                          !.ops = p.ops \o OpenOps(Writers)],
          err |-> NoError]

\* EventWriterHook.after_launch on process `rank`
after_launch(rank, p) ==
    IF ~IsMaster(rank) THEN [p |-> p, err |-> NoError]
    ELSE CloseAll(Writers, p)

\* EventWriterHook.after_train_iter on process `rank`
after_train_iter(rank, p, ks) ==
    IF ~IsMaster(rank) THEN [p |-> p, err |-> NoError]
    ELSE IF ~last_iter_in_epoch(p.iter) /\ ~every_n_iters(p.iter, Interval)
    THEN [p |-> p, err |-> NoError]
    ELSE Fire(p, ks, "train")

\* after_val_epoch with only the write kept to the master: the buffer is
\* flushed on every process
after_val_epoch_flushesAll(rank, p, ks) ==
    IF ~IsMaster(rank) THEN [p |-> _empty_buffer(p, ks), err |-> NoError]
    ELSE Fire(p, ks, "val")

\* EventWriterHook.after_val_epoch on process `rank`
after_val_epoch(rank, p, ks) ==
    IF ~IsMaster(rank) THEN [p |-> p, err |-> NoError]
    ELSE Fire(p, ks, "val")

\* ------------------------------------------------------------------------
\* The processes of a run: every process makes the same calls, so the calls
\* are taken in step; a hook error ends the run.
\* ------------------------------------------------------------------------

HookInitState ==
    /\ proc = [r \in Ranks |->
                 [hist |-> [k \in Keys |-> <<>>],
                  writer |-> [w \in {Writers[i] : i \in 1..Len(Writers)}
                                 |-> "none"],
                  ops |-> <<>>,
                  iter |-> 0]]
    /\ bkeys = <<>>
    /\ hookOp = "none"
    /\ hookResult = NoError
    /\ hcalls = 0

HookCall(op) ==
    /\ hcalls < MaxHookCalls
    /\ hookResult = NoError
    /\ hcalls' = hcalls + 1
    /\ hookOp' = op
    /\ UNCHANGED engineVars

\* engine.buffer.record(key, value) on every process
Record(key) ==
    /\ HookCall("record")
    /\ bkeys' = IF \E i \in 1..Len(bkeys) : bkeys[i] = key
                THEN bkeys ELSE Append(bkeys, key)
    /\ proc' = [r \in Ranks |->
                  [proc[r] EXCEPT !.hist[key] = Append(@, hcalls)]]
    /\ hookResult' = NoError

BeforeLaunch ==
    /\ HookCall("before_launch")
    /\ proc' = [r \in Ranks |-> before_launch(r, proc[r]).p]
    /\ hookResult' = before_launch(0, proc[0]).err
    /\ UNCHANGED bkeys

AfterLaunch ==
    /\ HookCall("after_launch")
    /\ proc' = [r \in Ranks |-> after_launch(r, proc[r]).p]
    /\ hookResult' = after_launch(0, proc[0]).err
    /\ UNCHANGED bkeys

\* one training iteration: the hook's callback, then the iteration counter
\* moves on unless the callback raised
AfterTrainIter ==
    /\ HookCall("after_train_iter")
    /\ proc' = [r \in Ranks |->
                  LET c == after_train_iter(r, proc[r], bkeys) IN
                  IF c.err # NoError THEN c.p
                  ELSE [c.p EXCEPT !.iter = (@ + 1) % EpochLen]]
    /\ hookResult' = after_train_iter(0, proc[0], bkeys).err
    /\ UNCHANGED bkeys

AfterValEpoch ==
    /\ HookCall("after_val_epoch")
    /\ proc' = [r \in Ranks |-> after_val_epoch(r, proc[r], bkeys).p]
    /\ hookResult' = after_val_epoch(0, proc[0], bkeys).err
    /\ UNCHANGED bkeys

NextHook ==
    \/ \E k \in Keys : Record(k)
    \/ BeforeLaunch
    \/ AfterLaunch
    \/ AfterTrainIter
    \/ AfterValEpoch

EngineInitState ==
    /\ _hooks = <<>>
    /\ _stage = 0
    /\ _epoch = 0
    /\ _iter = 0
    /\ _step = Unset
    /\ mode = "unset"
    /\ log = <<>>
    /\ on_register = <<>>
    /\ regCalls = <<>>
    /\ ctorArg = [kind |-> "other", names |-> <<>>]
    /\ lastOp = "none"
    /\ result = "ok"
    /\ ncalls = 0

Init ==
    /\ EngineInitState
    /\ HookInitState

\* a call is made
Call(op) ==
    /\ ncalls < MaxCalls
    /\ ncalls' = ncalls + 1
    /\ lastOp' = op
    /\ UNCHANGED hookVars

\* Engine(model, data_loaders, scheduler, hooks): line 13 makes the hook list
\* empty and line 20 calls register_hook(hooks) on it.  When that returns,
\* lines 22-25 empty the hook list again and zero the counters, and the new
\* engine replaces the one in hand; when it raises, the constructor raises and
\* the caller keeps the engine it had.
EngineInit(hooks) ==
    /\ Call("__init__")
    /\ ctorArg' = hooks
    /\ LET r == register_hook(<<>>, hooks, None) IN
       /\ result' = r.result
       /\ on_register' = IF r.on_register
                         THEN Append(on_register, hooks.names[1])
                         ELSE on_register
       /\ IF r.result = "ok"
          THEN /\ _hooks' = <<>>
               /\ _stage' = 0
               /\ _epoch' = 0
               /\ _iter' = 0
               /\ _step' = Unset
               /\ mode' = "unset"
               /\ log' = <<>>
               /\ regCalls' = <<>>
          ELSE UNCHANGED <<_hooks, _stage, _epoch, _iter, _step, mode, log,
                           regCalls>>

RegisterHook(hook, before) ==
    /\ Call("register_hook")
    /\ regCalls' = Append(regCalls, [hook |-> hook, before |-> before])
    /\ LET r == register_hook(_hooks, hook, before) IN
       /\ result' = r.result
       /\ _hooks' = r.hooks
       /\ on_register' = IF r.on_register
                         THEN Append(on_register, hook.names[1])
                         ELSE on_register
    /\ UNCHANGED <<_stage, _epoch, _iter, _step, mode, log, ctorArg>>

TrainStep ==
    /\ Call("train_step")
    /\ log' = log \o Events("before_train_step", "after_train_step", mode)
    /\ IF Raises(_hooks)
       THEN /\ _step' = _step
            /\ result' = "HookError"
       ELSE IF CanIncrement(_step)
       THEN /\ _step' = _step + 1
            /\ result' = "ok"
       ELSE /\ _step' = _step
            /\ result' = "AttributeError"
    /\ UNCHANGED <<_hooks, _stage, _epoch, _iter, mode, on_register,
                   regCalls, ctorArg>>

ValStep ==
    /\ Call("val_step")
    /\ log' = log \o Events("before_val_step", "after_val_step", mode)
    /\ result' = IF Raises(_hooks) THEN "HookError" ELSE "ok"
    /\ UNCHANGED <<_hooks, _stage, _epoch, _iter, _step, mode, on_register,
                   regCalls, ctorArg>>

\* train_epoch without its model.train() call
TrainEpoch_keepsMode ==
    /\ Call("train_epoch")
    /\ log' = log \o Events("before_train_epoch", "after_train_epoch", mode)
    /\ _epoch' = IF Raises(_hooks) THEN _epoch ELSE _epoch + 1
    /\ result' = IF Raises(_hooks) THEN "HookError" ELSE "ok"
    /\ UNCHANGED <<_hooks, _stage, _iter, _step, mode, on_register, regCalls,
                   ctorArg>>

TrainEpoch ==
    /\ Call("train_epoch")
    /\ mode' = "train"
    /\ log' = log \o Events("before_train_epoch", "after_train_epoch",
                            "train")
    /\ _epoch' = IF Raises(_hooks) THEN _epoch ELSE _epoch + 1
    /\ result' = IF Raises(_hooks) THEN "HookError" ELSE "ok"
    /\ UNCHANGED <<_hooks, _stage, _iter, _step, on_register, regCalls,
                   ctorArg>>

\* val_epoch copied from train_epoch with the increment left in
ValEpoch_counts ==
    /\ Call("val_epoch")
    /\ mode' = "eval"
    /\ log' = log \o Events("before_val_epoch", "after_val_epoch", "eval")
    /\ _epoch' = IF Raises(_hooks) THEN _epoch ELSE _epoch + 1
    /\ result' = IF Raises(_hooks) THEN "HookError" ELSE "ok"
    /\ UNCHANGED <<_hooks, _stage, _iter, _step, on_register, regCalls,
                   ctorArg>>

ValEpoch ==
    /\ Call("val_epoch")
    /\ mode' = "eval"
    /\ log' = log \o Events("before_val_epoch", "after_val_epoch", "eval")
    /\ result' = IF Raises(_hooks) THEN "HookError" ELSE "ok"
    /\ UNCHANGED <<_hooks, _stage, _epoch, _iter, _step, on_register,
                   regCalls, ctorArg>>

TrainStage ==
    /\ Call("train_stage")
    /\ log' = log \o Events("before_stage", "after_stage", mode)
    /\ _stage' = IF Raises(_hooks) THEN _stage ELSE _stage + 1
    /\ result' = IF Raises(_hooks) THEN "HookError" ELSE "ok"
    /\ UNCHANGED <<_hooks, _epoch, _iter, _step, mode, on_register, regCalls,
                   ctorArg>>

\* launch starting the run over: the counters are set back to 0
Launch_resets ==
    /\ Call("launch")
    /\ log' = log \o Events("before_launch", "after_launch", mode)
    /\ result' = IF Raises(_hooks) THEN "HookError" ELSE "ok"
    /\ _stage' = 0
    /\ _epoch' = 0
    /\ _iter' = 0
    /\ UNCHANGED <<_hooks, _step, mode, on_register, regCalls, ctorArg>>

Launch ==
    /\ Call("launch")
    /\ log' = log \o Events("before_launch", "after_launch", mode)
    /\ result' = IF Raises(_hooks) THEN "HookError" ELSE "ok"
    /\ UNCHANGED <<_hooks, _stage, _epoch, _iter, _step, mode, on_register,
                   regCalls, ctorArg>>

Next ==
    \/ \E h \in CtorInputs : EngineInit(h)
    \/ \E h \in HookInputs, b \in BeforeInputs : RegisterHook(h, b)
    \/ TrainStep
    \/ ValStep
    \/ TrainEpoch
    \/ ValEpoch
    \/ TrainStage
    \/ Launch

Spec == Init /\ [][Next]_vars

\* the run of EventWriterHook in its processes
SpecHook == Init /\ [][NextHook]_vars

\* ------------------------------------------------------------------------
\* Properties
\* ------------------------------------------------------------------------

\* the two events the last stepping call dispatched
LastBefore == log[Len(log) - 1]
LastAfter == log[Len(log)]

\* the methods that own a counter
TrainOps == {"train_step", "train_epoch", "train_stage"}

\* the operations a caller makes on a constructed engine
EngineOps == TrainOps \cup {"val_step", "val_epoch", "launch", "register_hook"}

\* a hook input register_hook accepts as a hook
ValidHook(hook) ==
    \/ hook.kind = "Hook"
    \/ hook.kind = "dict" /\ hook.names[1] \in HOOKS

\* number of dispatches of `event` so far
RECURSIVE CountEvent(_, _)
CountEvent(entries, event) ==
    IF entries = <<>> THEN 0
    ELSE (IF Head(entries).event = event THEN 1 ELSE 0)
         + CountEvent(Tail(entries), event)

\* the hook order a sequence of register_hook calls resolves to: append
\* order, adjusted by before= insertions; calls that must fail add nothing
RECURSIVE ResolvedOrder(_)
ResolvedOrder(calls) ==
    IF calls = <<>> THEN <<>>
    ELSE LET prev == ResolvedOrder(SubSeq(calls, 1, Len(calls) - 1))
             c == calls[Len(calls)]
         IN  IF ~ValidHook(c.hook) \/ Contains(prev, c.hook.names[1])
             THEN prev
             ELSE IF c.before = None
             THEN Append(prev, c.hook.names[1])
             ELSE IF Contains(prev, c.before)
             THEN InsertAt(prev, IndexOf(prev, c.before), c.hook.names[1])
             ELSE prev

\* C1: every before_X and after_X dispatch invokes the hooks in the order the
\* register_hook calls made so far resolve to (append order, adjusted by
\* before= insertions), the after_X dispatch in the same order, not reversed.
C1_DispatchOrder ==
    lastOp \in (EngineOps \ {"register_hook"}) =>
        /\ LastBefore.invoked = ResolvedOrder(regCalls)
        /\ LastAfter.invoked = ResolvedOrder(regCalls)

\* C2: register_hook(hook) with a valid, not yet registered hook and no
\* before succeeds and appends the hook; register_hook(hook, before=b) with b
\* registered succeeds and puts the hook at the index b held, the hooks
\* registered before keeping their relative order.
C2_RegisterPlaces ==
    [][ lastOp' = "register_hook" =>
          LET c == regCalls'[Len(regCalls')] IN
          (ValidHook(c.hook) /\ ~Contains(_hooks, c.hook.names[1])) =>
             /\ c.before = None =>
                   /\ result' = "ok"
                   /\ _hooks' = Append(_hooks, c.hook.names[1])
             /\ Contains(_hooks, c.before) =>
                   /\ result' = "ok"
                   /\ _hooks' = InsertAt(_hooks, IndexOf(_hooks, c.before),
                                         c.hook.names[1])
      ]_vars

\* C3: registering a hook whose name an earlier registration already put in
\* the list fails with the duplicate error, and the hook list never holds the
\* same name twice.
C3_DuplicateFails ==
    /\ \A i, j \in 1..Len(_hooks) : _hooks[i] = _hooks[j] => i = j
    /\ lastOp = "register_hook" =>
          LET c == regCalls[Len(regCalls)] IN
          (/\ ValidHook(c.hook)
           /\ \E i \in 1..(Len(regCalls) - 1) :
                 /\ ValidHook(regCalls[i].hook)
                 /\ regCalls[i].hook.names[1] = c.hook.names[1]
                 /\ regCalls[i].before = None)
          => result = "exists"

\* C4: a register_hook call that passes the type and duplicate checks fails
\* with the not-found error exactly when a before target is given and no
\* registered hook matches it; without a before target it never does.
C4_NotFoundIff ==
    [][ lastOp' = "register_hook" =>
          LET c == regCalls'[Len(regCalls')] IN
          /\ (ValidHook(c.hook) /\ ~Contains(_hooks, c.hook.names[1])) =>
                (result' = "not found"
                    <=> (c.before # None /\ ~Contains(_hooks, c.before)))
          /\ c.before = None => result' # "not found"
      ]_vars

\* C5: a constructor call given hooks returns an engine whose hook list holds
\* exactly those hooks, in the order given.
C5_ConstructorRegisters ==
    (lastOp = "__init__" /\ ctorArg.kind \in {"Hook", "list"}) =>
        /\ result = "ok"
        /\ _hooks = ctorArg.names

\* C6: iter equals the number of train_step calls made; val_step calls do
\* not count.
C6_IterCountsTrainSteps ==
    _iter = CountEvent(log, "after_train_step")

\* C7: a completed train_epoch call adds exactly 1 to epoch, a completed
\* train_stage call adds exactly 1 to stage, each leaving the other two
\* counters alone; a val_epoch call changes no counter.
C7_EpochStageCounters ==
    [][ /\ (lastOp' = "train_epoch" /\ result' = "ok") =>
              /\ _epoch' = _epoch + 1
              /\ _stage' = _stage
              /\ _iter' = _iter
        /\ (lastOp' = "train_stage" /\ result' = "ok") =>
              /\ _stage' = _stage + 1
              /\ _epoch' = _epoch
              /\ _iter' = _iter
        /\ lastOp' = "val_epoch" =>
              /\ _epoch' = _epoch
              /\ _stage' = _stage
              /\ _iter' = _iter
      ]_vars

\* C7 witness: a val_epoch call made after a train_epoch and a train_stage
\* call completed
C7_Witness ==
    lastOp = "val_epoch" /\ result = "ok" /\ _epoch = 1 /\ _stage = 1

\* C8: no engine operation decreases stage, epoch or iter, and a counter
\* changes only in train_stage, train_epoch or train_step.
C8_CountersMonotonic ==
    [][ lastOp' \in EngineOps =>
          /\ _stage' >= _stage
          /\ _epoch' >= _epoch
          /\ _iter' >= _iter
          /\ <<_stage', _epoch', _iter'>> # <<_stage, _epoch, _iter>>
                => lastOp' \in TrainOps
      ]_vars

\* C8 witness: launch called on an engine whose counters have advanced
C8_Witness ==
    lastOp = "launch" /\ _epoch = 1 /\ _stage = 1

\* the counter a train method owns, as recorded in a log entry / as it is now
OwnCounter(op, entry) ==
    IF op = "train_step" THEN entry.iter
    ELSE IF op = "train_epoch" THEN entry.epoch
    ELSE entry.stage

CurrentCounter(op) ==
    IF op = "train_step" THEN _iter
    ELSE IF op = "train_epoch" THEN _epoch
    ELSE _stage

BeforeEvent(op) ==
    IF op = "train_step" THEN "before_train_step"
    ELSE IF op = "train_epoch" THEN "before_train_epoch"
    ELSE "before_stage"

AfterEvent(op) ==
    IF op = "train_step" THEN "after_train_step"
    ELSE IF op = "train_epoch" THEN "after_train_epoch"
    ELSE "after_stage"

\* C9: a train_step, train_epoch or train_stage call dispatches before_X,
\* then after_X, then increments its counter: the after_X callbacks see the
\* counter as it was before the call, and the call leaves it one higher.
C9_BeforeAfterIncrement ==
    lastOp \in TrainOps =>
        /\ LastBefore.event = BeforeEvent(lastOp)
        /\ LastAfter.event = AfterEvent(lastOp)
        /\ OwnCounter(lastOp, LastAfter) = OwnCounter(lastOp, LastBefore)
        /\ CurrentCounter(lastOp) = OwnCounter(lastOp, LastAfter) + 1

\* C10: before_launch and after_launch are dispatched at most once each, and
\* every stage event lies after before_launch and before after_launch.
C10_LaunchBrackets ==
    /\ CountEvent(log, "before_launch") <= 1
    /\ CountEvent(log, "after_launch") <= 1
    /\ \A i \in 1..Len(log) :
          log[i].event \in {"before_stage", "after_stage"} =>
             /\ \E j \in 1..(i - 1) : log[j].event = "before_launch"
             /\ \A j \in 1..(i - 1) : log[j].event # "after_launch"

\* C11: the engine sets the model mode before it dispatches: the
\* before_train_epoch and after_train_epoch callbacks run with the model in
\* training mode, the before_val_epoch and after_val_epoch callbacks with the
\* model in evaluation mode, and a train_epoch call leaves the model in
\* training mode whatever ran before it.
C11_ModeSetBeforeDispatch ==
    /\ \A i \in 1..Len(log) :
          /\ log[i].event \in {"before_train_epoch", "after_train_epoch"}
                => log[i].mode = "train"
          /\ log[i].event \in {"before_val_epoch", "after_val_epoch"}
                => log[i].mode = "eval"
    /\ lastOp = "train_epoch" => mode = "train"
    /\ lastOp = "val_epoch" => mode = "eval"

\* C11 witness: a train_epoch call made right after a val_epoch call
C11_Witness ==
    /\ lastOp = "train_epoch"
    /\ Len(log) >= 4
    /\ log[Len(log) - 2].event = "after_val_epoch"
    /\ log[Len(log) - 2].mode = "eval"
    /\ LastBefore.event = "before_train_epoch"
    /\ mode = "train"

\* the stepping methods: each dispatches a before_X and an after_X event
StepOps == TrainOps \cup {"val_step", "val_epoch", "launch"}

\* a register_hook call so far was given the Hook `name`, valid and new, with
\* no before target
Registered(name) ==
    \E i \in 1..Len(regCalls) :
        /\ ValidHook(regCalls[i].hook)
        /\ regCalls[i].hook.names[1] = name
        /\ regCalls[i].before = None

\* C12: with a hook registered whose callbacks raise, a stepping call ends
\* with the hook's error: the dispatch stops at that hook, the after_X
\* dispatch is not made, and the counters stay as the callback saw them.
C12_HookErrorAborts ==
    (lastOp \in StepOps /\ Registered("h2")) =>
        /\ result = "HookError"
        /\ LastAfter.event \in
              {"before_train_step", "before_val_step", "before_train_epoch",
               "before_val_epoch", "before_stage", "before_launch"}
        /\ Len(LastAfter.invoked) > 0
        /\ LastAfter.invoked[Len(LastAfter.invoked)] = "h2"
        /\ <<_stage, _epoch, _iter>>
              = <<LastAfter.stage, LastAfter.epoch, LastAfter.iter>>

NewOps == SubSeq(proc'[0].ops, Len(proc[0].ops) + 1, Len(proc'[0].ops))

\* number of operations `op` of writer `w` in `ops`
CountOps(ops, op, w) ==
    Cardinality({i \in 1..Len(ops) : ops[i].op = op /\ ops[i].writer = w})

\* number of clear operations on `key` in `ops`
CountClears(ops, key) ==
    Cardinality({i \in 1..Len(ops) : ops[i].op = "clear" /\ ops[i].key = key})

WriterSet == {Writers[i] : i \in 1..Len(Writers)}

Tracked(key) == \E i \in 1..Len(bkeys) : bkeys[i] = key

\* the last step was a callback in which the master's writers wrote and the
\* buffer was flushed
FireStep ==
    /\ hookOp' \in {"after_train_iter", "after_val_epoch"}
    /\ hookResult' = NoError
    /\ Len(proc'[0].ops) > Len(proc[0].ops)

\* a dispatch entry that reaches a callback EventWriterHook implements
Delivered(entry) ==
    /\ entry.event \in EventWriterCallbacks
    /\ Contains(entry.invoked, "EventWriterHook")

\* C13: with an EventWriterHook registered, the training iteration N of an
\* epoch reaches the hook's writers exactly when N is a multiple of the
\* interval or the last iteration of the epoch (interval 2, epoch of 5
\* iterations: at 2, 4 and 5).
C13_WritersFireAtInterval ==
    (lastOp = "train_step" /\ Registered("EventWriterHook")) =>
        LET N == CountEvent(log, "before_train_step") IN
        /\ Len(log) > 0
        /\ Delivered(log[Len(log)]) <=> (N % Interval = 0 \/ N = 5)

\* C14: with an EventWriterHook registered, every val_epoch call completes,
\* its after_val_epoch dispatch reaches the hook, and each writer of the hook
\* has written.
C14_ValEpochFiresWriters ==
    (lastOp = "val_epoch" /\ Registered("EventWriterHook")) =>
        /\ result = "ok"
        /\ LastAfter.event = "after_val_epoch"
        /\ Delivered(LastAfter)
        /\ \A w \in WriterSet : CountOps(proc[0].ops, "write", w) >= 1

\* C15: after every fire of EventWriterHook every tracked key that does not
\* start with the marker has an empty history, a key ending with the marker
\* included; every key that starts with the marker has the history it had;
\* and no key is cleared before every writer has written.
C15_FireClearsNonInternal ==
    [][ FireStep =>
          /\ \A k \in Keys :
                IF Tracked(k) /\ ~StartsWithMarker(k)
                THEN proc'[0].hist[k] = <<>>
                ELSE proc'[0].hist[k] = proc[0].hist[k]
          /\ \A k \in Keys :
                (Tracked(k) /\ ~StartsWithMarker(k))
                   => CountClears(NewOps, k) = 1
          /\ \A w \in WriterSet : CountOps(NewOps, "write", w) = 1
          /\ \A i, j \in 1..Len(NewOps) :
                (NewOps[i].op = "clear" /\ NewOps[j].op \in {"write", "add"})
                   => j < i
      ]_vars

\* C15 witness: a fire that cleared "loss" and "loss_histogram_" and left
\* "_iter_time" with its history
C15_Witness ==
    /\ hookOp = "after_val_epoch"
    /\ hookResult = NoError
    /\ Tracked(KeyHistogram) /\ Tracked(KeyIterTime)
    /\ proc[0].hist[KeyHistogram] = <<>>
    /\ proc[1].hist[KeyHistogram] # <<>>
    /\ proc[0].hist[KeyIterTime] # <<>>
    /\ CountClears(proc[0].ops, KeyHistogram) = 1

TypeWord(key) ==
    IF Len(key) < 2 \/ key[Len(key) - 1] = "_"
    THEN <<>> ELSE <<key[Len(key) - 1]>>

SupportedWords ==
    {"histogram", "image", "images", "figure", "video", "audio", "text"}

\* the tracked keys a dashboard writer renders, in key order
Rendered ==
    {i \in 1..Len(bkeys) : ~StartsWithMarker(bkeys[i])}

Unsupported(key) ==
    EndsWithMarker(key) /\ \A t \in SupportedWords : TypeWord(key) # <<t>>

\* C17: when the opened dashboard writers write, a key ending with the marker
\* goes to the add call of its type word if that is one of the seven
\* supported, a key without the marker goes to the scalar call, and the write
\* fails with the unsupported-log-type error naming the type word of the
\* first key whose type word is not supported.
C17_TensorboardWriteByType ==
    [][ (/\ hookOp' = "after_val_epoch"
         /\ \A w \in WriterSet : proc[0].writer[w] = "open") =>
          IF \E i \in Rendered : Unsupported(bkeys[i])
          THEN LET first == CHOOSE i \in Rendered :
                               /\ Unsupported(bkeys[i])
                               /\ \A j \in Rendered :
                                     Unsupported(bkeys[j]) => i <= j
               IN  /\ hookResult'.error = "TypeError"
                   /\ hookResult'.token = TypeWord(bkeys[first])
                   /\ \A i \in Rendered :
                         Cardinality({n \in 1..Len(NewOps) :
                                        /\ NewOps[n].op = "add"
                                        /\ NewOps[n].key = bkeys[i]})
                            = IF i < first THEN 1 ELSE 0
          ELSE /\ hookResult' = NoError
               /\ \A w \in WriterSet : \A i \in Rendered :
                     \E n \in 1..Len(NewOps) :
                        /\ NewOps[n].op = "add"
                        /\ NewOps[n].writer = w
                        /\ NewOps[n].key = bkeys[i]
                        /\ NewOps[n].type
                              = IF EndsWithMarker(bkeys[i])
                                THEN TypeWord(bkeys[i]) ELSE <<"scalar">>
                        /\ \A n2 \in 1..Len(NewOps) :
                              (/\ NewOps[n2].op = "add"
                               /\ NewOps[n2].writer = w
                               /\ NewOps[n2].key = bkeys[i]) => n2 = n
      ]_vars

\* C17 witness: "loss_histogram_" went to the histogram call and the write
\* then failed on "loss_unknowntype_"
C17_Witness ==
    /\ hookOp = "after_val_epoch"
    /\ hookResult = [error |-> "TypeError", token |-> <<"unknowntype">>]
    /\ \E n \in 1..Len(proc[0].ops) :
          /\ proc[0].ops[n].op = "add"
          /\ proc[0].ops[n].key = KeyHistogram
          /\ proc[0].ops[n].type = <<"histogram">>

\* C18: with an EventWriterHook registered, a launch call reaches the hook
\* with before_launch (open) and with after_launch (close), each of them is
\* dispatched once in a run, and every event that makes the hook write lies
\* after before_launch and before after_launch.
C18_OpenOnceCloseOnce ==
    Registered("EventWriterHook") =>
        /\ lastOp = "launch" =>
              /\ Delivered(LastBefore)
              /\ Delivered(LastAfter)
        /\ CountEvent(log, "before_launch") <= 1
        /\ CountEvent(log, "after_launch") <= 1
        /\ \A i \in 1..Len(log) :
              log[i].event \in {"after_train_step", "after_val_epoch"} =>
                 /\ \E j \in 1..(i - 1) : log[j].event = "before_launch"
                 /\ \A j \in 1..(i - 1) : log[j].event # "after_launch"

\* C20: on a process that is not the master no callback of EventWriterHook
\* shortens the history of a key: what was recorded stays.
C20_NonMasterKeepsHistory ==
    [][ \A r \in Ranks \ {0} : \A k \in Keys :
          /\ Len(proc'[r].hist[k]) >= Len(proc[r].hist[k])
          /\ SubSeq(proc'[r].hist[k], 1, Len(proc[r].hist[k]))
                = proc[r].hist[k]
      ]_vars

\* C20 witness: a fire cleared "loss" on the master while the other process
\* still holds what it recorded
C20_Witness ==
    /\ hookOp \in {"after_val_epoch", "after_train_iter"}
    /\ hookResult = NoError
    /\ CountClears(proc[0].ops, KeyLoss) = 1
    /\ proc[0].hist[KeyLoss] = <<>>
    /\ proc[1].hist[KeyLoss] # <<>>

====
